---- MODULE Spec2Model ----
(***************************************************************************)
(* Model of scripts/gbp-reviews-daily.js: the required-setting checks,    *)
(* the yesterday window in Europe/Berlin, the token exchange, the paged    *)
(* location listing, the retrying HTTP helper, the per-location review     *)
(* harvester, the concurrency pool, the per-review reply-link step,        *)
(* chunking and the sequential delivery to the webhook.                    *)
(*                                                                         *)
(* Time is an integer number of milliseconds (DateTime.toMillis()).        *)
(* A promise is modelled by the state of the computation that settles it;  *)
(* one action is one run-to-completion segment of the event loop (from the *)
(* settling of an awaited I/O to the next await).                          *)
(***************************************************************************)
EXTENDS Integers, Sequences, FiniteSets, TLC

VARIABLES
    rq,         \* one requestWithRetry call: loop counter, lastErr, result
    window,     \* { start, end } of getYesterdayRangeBerlin, in millis
    feeds,      \* the review source: location id -> sequence of pages
    locations,  \* the list handed to asyncPool (result of listLocations)
    limit,      \* ENV.CONCURRENCY
    ppc,        \* where asyncPool's own async function stands
    nextIdx,    \* index of the next item of the for..of loop in asyncPool
    executing,  \* asyncPool's `executing` array (as the set of item indexes)
    wpc,        \* per item: state of the promise p of that item
    lw,         \* per item: local variables of main's pool worker
    items,      \* main's shared result list
    run,        \* main after the locations are listed: position, chunks, loop index
    sink,       \* the payloads the webhook answered with a 2xx, in order
    ck,         \* one chunkArray call: arguments and result
    env,        \* ENV: for each required key, whether its value is non-empty
    ll,         \* the account's location pages and listLocations' locals
    tr,         \* the clock: Europe/Berlin's offset rule and DateTime.now()
    net,        \* the kinds of HTTP request issued so far
    posts       \* the postToMake calls made so far, in order: batch_index, outcome

vars == <<rq, window, feeds, locations, limit, ppc, nextIdx, executing, wpc, lw, items, run, sink, ck,
          env, ll, tr, net, posts>>

retryVars == <<rq>>
poolVars == <<locations, limit, ppc, nextIdx, executing, wpc>>
mainVars == <<window, feeds, lw, items, run, sink>>
chunkVars == <<ck>>
bootVars == <<env, ll, tr>>
logVars == <<net, posts>>

(***************************************************************************)
(* Bounds of the model.                                                    *)
(***************************************************************************)
MaxRetries == 4     \* SpecRetry explores retries = 1..MaxRetries
MaxPoolItems == 4   \* SpecPool explores lists of up to MaxPoolItems items
MaxLimit == 3       \* the concurrency limit ranges over 1..MaxLimit
NumLocs == 3        \* SpecMain explores accounts of up to NumLocs locations
MaxBatch == 2       \* ENV.MAKE_BATCH_SIZE ranges over 1..MaxBatch in SpecMain
MaxPages == 5       \* SpecHarvest explores feeds of up to MaxPages pages
MaxArrLen == 5      \* SpecChunk explores arrays of up to MaxArrLen records
MaxChunkSize == 4   \* SpecChunk explores sizes 0..MaxChunkSize
MaxBootLocs == 2    \* SpecBoot explores accounts of up to MaxBootLocs locations
MaxNowDay == 4      \* SpecRange explores DateTime.now() in days 1..MaxNowDay
MaxSent == 3        \* SpecDeliver explores lists of up to MaxSent collected records

(***************************************************************************)
(* ENV and mustEnv (lines 5-25)                                            *)
(*                                                                         *)
(* env[key] tells whether ENV[key], the trimmed value of the environment   *)
(* variable, is a non-empty string.                                        *)
(***************************************************************************)
EnvKeys ==
    {"GBP_CLIENT_ID", "GBP_CLIENT_SECRET", "GBP_REFRESH_TOKEN", "GBP_ACCOUNT_ID",
     "PREFILL_API_URL", "PREFILL_SECRET", "MAKE_REVIEWS_WEBHOOK_URL"}

FullEnv == [k \in EnvKeys |-> TRUE]

\* mustEnv(key) for each key of `keys` in turn: TRUE iff none of them throws.
mustEnv(e, keys) == \A k \in keys : e[k]

(***************************************************************************)
(* getYesterdayRangeBerlin (lines 34-42) and the luxon operations it uses  *)
(*                                                                         *)
(* An instant is a number of milliseconds counted from an origin that is   *)
(* 23:00 UTC, i.e. 00:00 CET, of some day.  A zone rule [at, before,       *)
(* after] gives Europe/Berlin's UTC offset around one change of offset:    *)
(* `before` for instants earlier than `at`, `after` from `at` on.          *)
(* A DateTime is [ts, o]: its instant and its offset.                      *)
(***************************************************************************)
Hour == 3600000
Day == 86400000
\* The UTC offsets of Europe/Berlin: standard time and summer time.
CET == 3600000
CEST == 7200000

\* Both changes happen at 01:00 UTC (02:00 CET becomes 03:00 CEST in
\* spring, 03:00 CEST becomes 02:00 CET in autumn), here on day 2.
ChangeAt == 2 * Day + 2 * Hour

Winter == [at |-> 0, before |-> CET, after |-> CET]
Summer == [at |-> 0, before |-> CEST, after |-> CEST]
SpringForward == [at |-> ChangeAt, before |-> CET, after |-> CEST]
FallBack == [at |-> ChangeAt, before |-> CEST, after |-> CET]
ZoneRules == {Winter, Summer, SpringForward, FallBack}

\* zone.offset(ts)
ZoneOffset(z, ts) == IF ts < z.at THEN z.before ELSE z.after

\* The local wall clock of instant ts at offset o, in milliseconds counted
\* from 00:00 of the civil day 0 (the origin's civil day in CET).
LocalTS(ts, o) == ts + o - CET

\* luxon's fixOffset: the instant and offset of a local wall clock time,
\* trying offset o first.
FixOffset(z, localTS, o) ==
    LET utcGuess == localTS - o + CET
        o2 == ZoneOffset(z, utcGuess)
        guess2 == utcGuess - (o2 - o)
        o3 == ZoneOffset(z, guess2)
    IN IF o = o2 THEN [ts |-> utcGuess, o |-> o]
       ELSE IF o2 = o3 THEN [ts |-> guess2, o |-> o2]
       ELSE [ts |-> localTS - (IF o2 < o3 THEN o2 ELSE o3) + CET,
             o |-> IF o2 < o3 THEN o3 ELSE o2]

\* DateTime.now().setZone(TZ) at instant t.
NowIn(z, t) == [ts |-> t, o |-> ZoneOffset(z, t)]

\* dt.plus({ days: n }), n < 0 for minus: calendar arithmetic on the local
\* date, the wall clock time kept.
PlusDays(z, dt, n) == FixOffset(z, LocalTS(dt.ts, dt.o) + n * Day, dt.o)

\* dt.minus(ms), a duration in milliseconds: arithmetic on the instant.
MinusMillis(z, dt, ms) == [ts |-> dt.ts - ms, o |-> ZoneOffset(z, dt.ts - ms)]

\* dt.startOf("day"): the local date at 00:00:00.000.
StartOfDay(z, dt) == FixOffset(z, (LocalTS(dt.ts, dt.o) \div Day) * Day, dt.o)

\* dt.endOf("day"), which luxon computes as plus one day, startOf, minus 1.
EndOfDayMutant(z, dt) == MinusMillis(z, [ts |-> StartOfDay(z, dt).ts + Day, o |-> dt.o], 1)
EndOfDay(z, dt) == MinusMillis(z, StartOfDay(z, PlusDays(z, dt, 1)), 1)

\* { start, end } for DateTime.now() at instant t.
getYesterdayRangeBerlin(z, t) ==
    LET now == NowIn(z, t)
        y == PlusDays(z, now, -1)
    IN [start |-> StartOfDay(z, y), end |-> EndOfDay(z, y)]

\* start.toMillis() and end.toMillis(), what the harvest compares with.
RangeMillis(range) == [start |-> range.start.ts, end |-> range.end.ts]

(***************************************************************************)
(* requestWithRetry (lines 49-71)                                          *)
(***************************************************************************)
\* Default of the `retries` option.
DefaultRetries == 4
\* Default of the `baseBackoffMs` option.
BaseBackoffMs == 800

\* What one fetch() can end in: a network-level failure (fetch rejects) or
\* a response with a status.
Statuses == {200, 204, 404, 429, 500, 502, 503, 504}
FetchOutcomes == {[net |-> TRUE, status |-> 0]} \cup
                 {[net |-> FALSE, status |-> s] : s \in Statuses}

\* [429, 500, 502, 503, 504].includes(res.status)
RetryableMutant(status) == status \in {429, 500, 503, 504}
Retryable(status) == status \in {429, 500, 502, 503, 504}

\* res.ok
ResOk(status) == status >= 200 /\ status <= 299

RECURSIVE Pow2(_)
\* Math.pow(2, i)
Pow2(i) == IF i = 0 THEN 1 ELSE 2 * Pow2(i - 1)

NoErr == [kind |-> "none", status |-> 0, attempt |-> 0]

\* State of a call on entry: i = 0, lastErr undefined, nothing fetched.
\* `log` is the sequence of fetch outcomes so far and `slept` the sequence
\* of sleep() arguments so far; `attempt` in an error tells which fetch
\* produced it (the Error object's identity).
RetryStart(retries, baseBackoff) ==
    [pc |-> "loop", retries |-> retries, base |-> baseBackoff, i |-> 0,
     lastErr |-> NoErr, log |-> <<>>, slept |-> <<>>,
     res |-> 0, err |-> NoErr]

\* One iteration of the for loop, the fetch ending in outcome o.
RetryIterMutant(st, o) ==
    IF o.net
    THEN [st EXCEPT !.log = Append(@, o),
                    !.lastErr = [kind |-> "net", status |-> 0, attempt |-> st.i + 1],
                    !.slept = Append(@, st.base),
                    !.i = @ + 1]
    ELSE IF Retryable(o.status)
    THEN [st EXCEPT !.log = Append(@, o),
                    !.lastErr = [kind |-> "http", status |-> o.status, attempt |-> st.i + 1],
                    !.slept = Append(@, st.base * Pow2(st.i)),
                    !.i = @ + 1]
    ELSE [st EXCEPT !.log = Append(@, o), !.pc = "returned", !.res = o.status]
RetryIter(st, o) ==
    IF o.net
    THEN \* catch (e): lastErr = e; await sleep(...)
         [st EXCEPT !.log = Append(@, o),
                    !.lastErr = [kind |-> "net", status |-> 0, attempt |-> st.i + 1],
                    !.slept = Append(@, st.base * Pow2(st.i)),
                    !.i = @ + 1]
    ELSE IF Retryable(o.status)
    THEN \* lastErr = new Error(`HTTP ${res.status} ...`); sleep; continue
         [st EXCEPT !.log = Append(@, o),
                    !.lastErr = [kind |-> "http", status |-> o.status, attempt |-> st.i + 1],
                    !.slept = Append(@, st.base * Pow2(st.i)),
                    !.i = @ + 1]
    ELSE \* return res
         [st EXCEPT !.log = Append(@, o), !.pc = "returned", !.res = o.status]

\* The loop condition i < retries.
RetryLoopCondMutant(st) == st.i <= st.retries
RetryLoopCond(st) == st.i < st.retries

\* throw lastErr || new Error("requestWithRetry failed")
RetryThrow(st) ==
    [st EXCEPT !.pc = "thrown",
               !.err = IF st.lastErr.kind = "none"
                       THEN [kind |-> "generic", status |-> 0, attempt |-> 0]
                       ELSE st.lastErr]

RECURSIVE RetryRun(_, _)
\* The whole call against a script of fetch outcomes (one per attempt that
\* is made; the script is at least `retries` long).
RetryRun(st, script) ==
    IF st.pc # "loop" THEN st
    ELSE IF ~RetryLoopCond(st) THEN RetryThrow(st)
    ELSE RetryRun(RetryIter(st, script[st.i + 1]), script)

requestWithRetry(script) == RetryRun(RetryStart(DefaultRetries, BaseBackoffMs), script)

\* ---- actions of one call, attempt by attempt ----
RetryAttempt ==
    /\ rq.pc = "loop"
    /\ RetryLoopCond(rq)
    /\ \E o \in FetchOutcomes : rq' = RetryIter(rq, o)
    /\ UNCHANGED <<poolVars, mainVars, chunkVars, bootVars, logVars>>

RetryExhausted ==
    /\ rq.pc = "loop"
    /\ ~RetryLoopCond(rq)
    /\ rq' = RetryThrow(rq)
    /\ UNCHANGED <<poolVars, mainVars, chunkVars, bootVars, logVars>>

IdleWindow == [start |-> 0, end |-> 0]
IdleRq == [RetryStart(DefaultRetries, BaseBackoffMs) EXCEPT !.pc = "idle"]
IdleRun == [pc |-> "idle", batchSize |-> 0, chunks |-> <<>>, i |-> 0, countTotal |-> 0]
IdleCk == [pc |-> "idle", arr |-> <<>>, size |-> 0, out |-> <<>>]

IdlePool ==
    /\ locations = <<>>
    /\ limit = 1
    /\ ppc = "idle"
    /\ nextIdx = 1
    /\ executing = {}
    /\ wpc = <<>>

IdleMain ==
    /\ window = IdleWindow
    /\ feeds = <<>>
    /\ lw = <<>>
    /\ items = <<>>
    /\ run = IdleRun
    /\ sink = <<>>
    /\ net = {}
    /\ posts = <<>>

\* The clock of a run of the script: a winter morning of day 2.
RunClock == [pc |-> "idle", zone |-> Winter, now |-> 2 * Day + 6 * Hour]
IdleLl == [pc |-> "idle", pages |-> <<>>, pageToken |-> 0, out |-> <<>>]

IdleBoot ==
    /\ env = FullEnv
    /\ ll = IdleLl
    /\ tr = RunClock

InitRetry ==
    /\ \E n \in 1..MaxRetries : rq = RetryStart(n, BaseBackoffMs)
    /\ IdlePool
    /\ IdleMain
    /\ IdleBoot
    /\ ck = IdleCk

NextRetry == RetryAttempt \/ RetryExhausted

SpecRetry == InitRetry /\ [][NextRetry]_vars

(***************************************************************************)
(* getJson (lines 73-87) and the scripts of fetch outcomes the callers of  *)
(* requestWithRetry are run against.                                       *)
(***************************************************************************)
Resp(s) == [net |-> FALSE, status |-> s]
NetErr == [net |-> TRUE, status |-> 0]

\* What the server does to the successive fetches of one request.
HttpScripts ==
    { <<Resp(200)>>,
      <<NetErr, Resp(503), Resp(200)>>,
      <<Resp(404)>>,
      <<NetErr, NetErr, NetErr, NetErr>>,
      <<Resp(429), Resp(500), Resp(502), Resp(504)>> }

\* getJson returns the parsed body iff requestWithRetry returns a response
\* with res.ok; it throws when requestWithRetry throws or !res.ok.
GetJsonOk(script) ==
    LET r == requestWithRetry(script) IN r.pc = "returned" /\ ResOk(r.res)

(***************************************************************************)
(* The review source and listReviewsForLocation (lines 159-205)            *)
(*                                                                         *)
(* A review is [id, ct]: ct is <<>> when createTime is missing, else       *)
(* <<[wall, offset]>>, an RFC 3339 time: wall-clock millis and the UTC     *)
(* offset in millis.  A page is [reviews, next]: next = 0 when the         *)
(* response has no nextPageToken, else the index of the page the token     *)
(* stands for.  pageToken = 0 is the empty token of the first request.     *)
(***************************************************************************)
\* DateTime.fromISO(ct, { setZone: true }).setZone(TZ).toMillis()
ToMillis(t) == t.wall - t.offset

EmptyPage == [reviews |-> <<>>, next |-> 0]

\* The response of the reviews endpoint to a request with token tok.
FetchPage(feed, tok) ==
    LET n == IF tok = 0 THEN 1 ELSE tok IN
    IF n <= Len(feed) THEN feed[n] ELSE EmptyPage

\* if (dtBerlin.toMillis() >= startBerlin.toMillis()) anyGeStart = true
GeStart(t, w) == ToMillis(t) >= w.start

\* dtBerlin.toMillis() >= startBerlin.toMillis() &&
\* dtBerlin.toMillis() <= endBerlin.toMillis()
InRangeMutant(t, w) == ToMillis(t) >= w.start
InRange(t, w) == ToMillis(t) >= w.start /\ ToMillis(t) <= w.end

RECURSIVE ScanPage(_, _, _, _)
\* for (const r of reviews) { ... }: acc is [out, anyGeStart].
ScanPage(reviews, k, w, acc) ==
    IF k > Len(reviews) THEN acc
    ELSE LET r == reviews[k] IN
         IF r.ct = <<>> THEN ScanPage(reviews, k + 1, w, acc)
         ELSE ScanPage(reviews, k + 1, w,
                  [out |-> IF InRange(r.ct[1], w) THEN Append(acc.out, r) ELSE acc.out,
                   anyGeStart |-> acc.anyGeStart \/ GeStart(r.ct[1], w)])

\* if (pagesBelowCutoff >= 2) break
CutoffReachedMutant(below) == below >= 3
CutoffReached(below) == below >= 2

\* if (!anyGeStart) pagesBelowCutoff += 1; else pagesBelowCutoff = 0;
NextBelowMutant(below, anyGeStart) == IF ~anyGeStart THEN below + 1 ELSE below
NextBelow(below, anyGeStart) == IF ~anyGeStart THEN below + 1 ELSE 0

\* Locals of listReviewsForLocation on entry; `fetched` counts the page
\* requests that were answered.
HarvestStart ==
    [pc |-> "fetch", pageToken |-> 0, pagesBelowCutoff |-> 0, out |-> <<>>, fetched |-> 0]

\* One iteration of the do..while loop, getJson having returned `page`.
HarvestPage(h, page, w) ==
    IF Len(page.reviews) = 0
    THEN [h EXCEPT !.pc = "returned", !.fetched = @ + 1]
    ELSE LET sc == ScanPage(page.reviews, 1, w, [out |-> h.out, anyGeStart |-> FALSE])
             below == NextBelow(h.pagesBelowCutoff, sc.anyGeStart)
         IN IF CutoffReached(below)
            THEN [h EXCEPT !.pc = "returned", !.fetched = @ + 1,
                           !.out = sc.out, !.pagesBelowCutoff = below]
            ELSE [h EXCEPT !.pc = IF page.next # 0 THEN "fetch" ELSE "returned",
                           !.fetched = @ + 1, !.out = sc.out,
                           !.pagesBelowCutoff = below, !.pageToken = page.next]

\* getJson throws: listReviewsForLocation throws with it.
HarvestThrow(h) == [h EXCEPT !.pc = "thrown"]

(***************************************************************************)
(* asyncPool (lines 280-296)                                               *)
(*                                                                         *)
(* wpc[i] is the promise p of item i: "idle" (not created yet), "running"  *)
(* (created, iteratorFn(item) not settled), "fulfilled" or "rejected".     *)
(* The promise e of item i is p.then(splice): it removes itself from       *)
(* `executing` when p fulfils and is rejected, and stays in `executing`,   *)
(* when p rejects.                                                         *)
(* ppc is the pool's own position: "loop" (about to take the next item),   *)
(* "race" (await Promise.race(executing)), "all" (return Promise.all(ret), *)
(* pending), "resolved" or "rejected" (the promise asyncPool returned).    *)
(***************************************************************************)
InFlight == {i \in DOMAIN wpc : wpc[i] = "running"}

\* if (limit <= items.length)
PoolTracksMutant == FALSE
PoolTracks == limit <= Len(locations)

\* if (executing.length >= limit) await Promise.race(executing)
PoolMustWaitMutant(ex) == Cardinality(ex) > limit
PoolMustWait(ex) == Cardinality(ex) >= limit

\* Where the pool stands when control is back at the head of the for..of
\* loop with n the next index and w the promises: the next iteration, or
\* past the last item `return Promise.all(ret)`, which is rejected if a p
\* is rejected, fulfilled if all are fulfilled, and pending otherwise.
PoolAtLoopHeadMutant(n, w) ==
    IF n <= Len(locations) THEN "loop" ELSE "resolved"
PoolAtLoopHead(n, w) ==
    IF n <= Len(locations) THEN "loop"
    ELSE IF \E i \in DOMAIN w : w[i] = "rejected" THEN "rejected"
    ELSE IF \A i \in DOMAIN w : w[i] = "fulfilled" THEN "resolved"
    ELSE "all"

\* One iteration of the for..of loop: create p for the next item (its
\* iteratorFn starts in the microtask that follows), and, when tracking,
\* push e and wait for the race if `executing` is full.  A race over an
\* array that already holds a rejected e rejects at once.
PoolIterate ==
    /\ wpc' = [wpc EXCEPT ![nextIdx] = "running"]
    /\ nextIdx' = nextIdx + 1
    /\ IF PoolTracks
       THEN /\ executing' = executing \cup {nextIdx}
            /\ ppc' = IF PoolMustWait(executing')
                      THEN IF \E j \in executing' : wpc'[j] = "rejected"
                           THEN "rejected" ELSE "race"
                      ELSE PoolAtLoopHead(nextIdx', wpc')
       ELSE /\ executing' = executing
            /\ ppc' = PoolAtLoopHead(nextIdx', wpc')
    /\ UNCHANGED <<locations, limit>>

\* p of item i settles.  On fulfilment e splices itself out of `executing`
\* and a pending race resolves, so the loop goes on; on rejection e stays
\* and a pending race, or a pending Promise.all, rejects: asyncPool throws.
PoolOnSettle(i, outcome) ==
    /\ wpc' = [wpc EXCEPT ![i] = outcome]
    /\ executing' = IF outcome = "fulfilled" THEN executing \ {i} ELSE executing
    /\ ppc' = IF outcome = "fulfilled"
              THEN IF ppc \in {"race", "all"} THEN PoolAtLoopHead(nextIdx, wpc') ELSE ppc
              ELSE IF ppc \in {"race", "all"} THEN "rejected" ELSE ppc
    /\ UNCHANGED <<locations, limit, nextIdx>>

\* ---- asyncPool with an arbitrary iteratorFn ----
PoolLaunch ==
    /\ ppc = "loop"
    /\ nextIdx <= Len(locations)
    /\ PoolIterate
    /\ UNCHANGED <<retryVars, mainVars, chunkVars, bootVars, logVars>>

\* iteratorFn(item) returns.
WorkerReturn(i) ==
    /\ wpc[i] = "running"
    /\ PoolOnSettle(i, "fulfilled")
    /\ UNCHANGED <<retryVars, mainVars, chunkVars, bootVars, logVars>>

\* iteratorFn(item) throws.
WorkerThrow(i) ==
    /\ wpc[i] = "running"
    /\ PoolOnSettle(i, "rejected")
    /\ UNCHANGED <<retryVars, mainVars, chunkVars, bootVars, logVars>>

\* asyncPool(limit, list, iteratorFn) is entered: an empty list falls
\* through the loop to Promise.all([]), which is fulfilled.
InitPoolVars(list) ==
    /\ locations = list
    /\ limit \in 1..MaxLimit
    /\ nextIdx = 1
    /\ executing = {}
    /\ wpc = [k \in 1..Len(list) |-> "idle"]
    /\ ppc = IF Len(list) = 0 THEN "resolved" ELSE "loop"

InitPool ==
    /\ \E n \in 0..MaxPoolItems : InitPoolVars([k \in 1..n |-> k])
    /\ rq = IdleRq
    /\ IdleMain
    /\ IdleBoot
    /\ ck = IdleCk

NextPool ==
    \/ PoolLaunch
    \/ \E i \in DOMAIN wpc : WorkerReturn(i)
    \/ \E i \in DOMAIN wpc : WorkerThrow(i)

SpecPool == InitPool /\ [][NextPool]_vars

(***************************************************************************)
(* chunkArray (lines 272-277)                                              *)
(***************************************************************************)
MinOf(a, b) == IF a < b THEN a ELSE b

\* arr.slice(a, b) for 0 <= a <= b: elements a .. b-1 (0-based), the end
\* clamped to arr.length.
SliceMutant(arr, a, b) == SubSeq(arr, a + 1, MinOf(b - 1, Len(arr)))
Slice(arr, a, b) == SubSeq(arr, a + 1, MinOf(b, Len(arr)))

RECURSIVE ChunkLoop(_, _, _, _)
\* for (let i = 0; i < arr.length; i += size) out.push(arr.slice(i, i + size))
ChunkLoop(arr, size, i, out) ==
    IF i < Len(arr)
    THEN ChunkLoop(arr, size, i + size, Append(out, Slice(arr, i, i + size)))
    ELSE out

chunkArray(arr, size) ==
    IF size <= 0 THEN <<arr>> ELSE ChunkLoop(arr, size, 0, <<>>)

ChunkVals == {"a", "b"}

ChunkCall ==
    /\ ck.pc = "call"
    /\ ck' = [ck EXCEPT !.pc = "done", !.out = chunkArray(ck.arr, ck.size)]
    /\ UNCHANGED <<retryVars, poolVars, mainVars, bootVars, logVars>>

InitChunk ==
    /\ \E n \in 0..MaxArrLen : \E a \in [1..n -> ChunkVals] : \E s \in 0..MaxChunkSize :
          ck = [pc |-> "call", arr |-> a, size |-> s, out |-> <<>>]
    /\ rq = IdleRq
    /\ IdlePool
    /\ IdleMain
    /\ IdleBoot

NextChunk == ChunkCall

SpecChunk == InitChunk /\ [][NextChunk]_vars

(***************************************************************************)
(* createPrefillRid (lines 234-253) and the record main builds             *)
(*                                                                         *)
(* JavaScript strings are strings; Null stands for null.                   *)
(***************************************************************************)
Null == "<null>"

\* x || null
OrNull(x) == IF x = "" THEN Null ELSE x

\* The body of the link service's response: JSON or not, and its rid.
RidBody == [json |-> TRUE, rid |-> "rid1"]
NoRidBody == [json |-> TRUE, rid |-> ""]
GarbageBody == [json |-> FALSE, rid |-> ""]

\* What the link service does to one createPrefillRid call.
PrefillCases ==
    { [script |-> <<Resp(200)>>, body |-> RidBody],
      [script |-> <<NetErr, Resp(503), Resp(200)>>, body |-> RidBody],
      [script |-> <<NetErr, Resp(503), NetErr, Resp(503)>>, body |-> GarbageBody],
      [script |-> <<Resp(404)>>, body |-> GarbageBody],
      [script |-> <<Resp(200)>>, body |-> GarbageBody],
      [script |-> <<Resp(200)>>, body |-> NoRidBody] }

\* e.message of what requestWithRetry throws.
RetryErrMessage(err) ==
    IF err.kind = "net" THEN "fetch failed"
    ELSE IF err.kind = "http" THEN "HTTP error status"
    ELSE "requestWithRetry failed"

\* createPrefillRid: [threw, rid, message].
createPrefillRid(c) ==
    LET r == requestWithRetry(c.script) IN
    IF r.pc = "thrown"
    THEN [threw |-> TRUE, rid |-> "", message |-> RetryErrMessage(r.err)]
    ELSE IF ~ResOk(r.res)
    THEN [threw |-> TRUE, rid |-> "", message |-> "Prefill error"]
    ELSE IF ~c.body.json
    THEN [threw |-> TRUE, rid |-> "", message |-> "Unexpected token in JSON"]
    ELSE IF c.body.rid = ""
    THEN [threw |-> TRUE, rid |-> "", message |-> "Prefill response missing rid"]
    ELSE [threw |-> FALSE, rid |-> c.body.rid, message |-> ""]

\* The try/catch around createPrefillRid in main (lines 381-407): the
\* values of rid, smart_reply_url and prefill_error after it.
LinkLocalsMutant(c) ==
    LET res == createPrefillRid(c) IN
    IF res.threw
    THEN [threw |-> TRUE, rid |-> "", smart_reply_url |-> "/?rid=", prefill_error |-> res.message]
    ELSE [threw |-> FALSE, rid |-> res.rid, smart_reply_url |-> "/?rid=rid1", prefill_error |-> ""]
LinkLocals(c) ==
    LET res == createPrefillRid(c) IN
    IF res.threw
    THEN [threw |-> TRUE, rid |-> "", smart_reply_url |-> "", prefill_error |-> res.message]
    ELSE [threw |-> FALSE, rid |-> res.rid, smart_reply_url |-> "/?rid=rid1", prefill_error |-> ""]

\* The object pushed to items (lines 409-428); the fields that only copy
\* texts of the review or of the location are left out.
Record(loc, r, l) ==
    [locationId |-> loc.id,
     reviewId |-> r.id,
     prefill_rid |-> OrNull(l.rid),
     smart_reply_url |-> OrNull(l.smart_reply_url),
     prefill_error |-> OrNull(l.prefill_error)]

\* items.push(rec), reached whether or not the link call threw.
PushRecordMutantFront(list, rec, l) == <<rec>> \o list
PushRecordMutant(list, rec, l) == IF l.threw THEN list ELSE Append(list, rec)
PushRecord(list, rec, l) == Append(list, rec)

(***************************************************************************)
(* main's pool worker (lines 325-432)                                      *)
(*                                                                         *)
(* lw[i] = [phase, h, k, linked]: h are the locals of the worker's         *)
(* listReviewsForLocation call, k the index of the review of the for..of   *)
(* loop, `linked` tells for each review handled so far whether its link    *)
(* call threw.  phase: "start" (body not entered), "meta" (awaiting        *)
(* getLocationMetadata), "harvest" (awaiting a page of reviews), "link"    *)
(* (awaiting createPrefillRid, or the sleep(60) before it), "done".         *)
(***************************************************************************)
WorkerStart == [phase |-> "start", h |-> HarvestStart, k |-> 0, linked |-> <<>>]

\* catch (e) { console.log(...); return; }: how p settles when
\* listReviewsForLocation throws.
OnHarvestErrorMutant == "rejected"
OnHarvestError == "fulfilled"

\* Lines 326-339: no location id: return; else the metadata fallback, if
\* the listing carried no metadata, or the first page request.
LocStart(i) ==
    /\ wpc[i] = "running"
    /\ lw[i].phase = "start"
    /\ IF locations[i].id = 0
       THEN /\ lw' = [lw EXCEPT ![i].phase = "done"]
            /\ PoolOnSettle(i, "fulfilled")
            /\ net' = net
       ELSE /\ lw' = [lw EXCEPT ![i].phase = IF locations[i].hasMeta THEN "harvest" ELSE "meta"]
            /\ net' = net \cup {IF locations[i].hasMeta THEN "reviews" ELSE "metadata"}
            /\ UNCHANGED poolVars
    /\ UNCHANGED <<retryVars, chunkVars, bootVars, window, feeds, items, run, sink, posts>>

\* Lines 340-357: getLocationMetadata returns or throws; what it throws is
\* caught and what it returns only fills maps_uri, new_review_uri and
\* place_id, which Record leaves out.  Then the first page request.
LocMeta(i) ==
    /\ wpc[i] = "running"
    /\ lw[i].phase = "meta"
    /\ lw' = [lw EXCEPT ![i].phase = "harvest"]
    /\ net' = net \cup {"reviews"}
    /\ UNCHANGED <<retryVars, poolVars, chunkVars, bootVars, window, feeds, items, run, sink, posts>>

\* What the worker goes on to link once listReviewsForLocation has
\* returned or thrown (lines 355-367): nothing after a throw (`return` in
\* the catch), else the list returned.
ReviewsToLinkMutant(h) == h.out
ReviewsToLink(h) == IF h.pc = "thrown" THEN <<>> ELSE h.out

\* A page request of listReviewsForLocation is answered (lines 165-202),
\* and, once the harvest has returned or thrown, lines 358-367.
LocFetch(i) ==
    /\ wpc[i] = "running"
    /\ lw[i].phase = "harvest"
    /\ \E script \in HttpScripts :
         LET h2 == IF GetJsonOk(script)
                   THEN HarvestPage(lw[i].h,
                                    FetchPage(feeds[locations[i].id], lw[i].h.pageToken),
                                    window)
                   ELSE HarvestThrow(lw[i].h)
         IN CASE h2.pc = "fetch" ->
                   /\ lw' = [lw EXCEPT ![i].h = h2]
                   /\ net' = net \cup {"reviews"}
                   /\ UNCHANGED poolVars
              [] OTHER ->
                   IF Len(ReviewsToLink(h2)) = 0
                   THEN /\ lw' = [lw EXCEPT ![i].h = h2, ![i].phase = "done"]
                        /\ net' = net
                        /\ PoolOnSettle(i, IF h2.pc = "thrown"
                                           THEN OnHarvestError ELSE "fulfilled")
                   ELSE /\ lw' = [lw EXCEPT ![i].h = h2, ![i].phase = "link", ![i].k = 1]
                        /\ net' = net \cup {"prefill"}
                        /\ UNCHANGED poolVars
    /\ UNCHANGED <<retryVars, chunkVars, bootVars, window, feeds, items, run, sink, posts>>

\* createPrefillRid settles (lines 385-431): the record is pushed, the
\* worker sleeps 60 ms (a pause that reads and writes nothing), and then
\* the link call of the next review is made or the worker returns.
LocLink(i) ==
    /\ wpc[i] = "running"
    /\ lw[i].phase = "link"
    /\ \E c \in PrefillCases :
         LET l == LinkLocals(c)
             rec == Record(locations[i], lw[i].h.out[lw[i].k], l)
         IN /\ items' = PushRecord(items, rec, l)
            /\ IF lw[i].k < Len(lw[i].h.out)
               THEN /\ lw' = [lw EXCEPT ![i].k = @ + 1, ![i].linked = Append(@, l.threw)]
                    /\ UNCHANGED poolVars
               ELSE /\ lw' = [lw EXCEPT ![i].phase = "done", ![i].linked = Append(@, l.threw)]
                    /\ PoolOnSettle(i, "fulfilled")
    /\ UNCHANGED <<retryVars, chunkVars, bootVars, logVars, window, feeds, run, sink>>

(***************************************************************************)
(* main from `await asyncPool(...)` on (lines 434-470) and postToMake      *)
(* (lines 256-270).  run.pc: "pool", "dispatch" (awaiting postToMake of    *)
(* chunks[i], i counted from 0), "done" (main returned: exit code 0),      *)
(* "failed" (main().catch: process.exit(1)).                               *)
(***************************************************************************)
\* if (chunks.length === 0) chunks.push([])
AtLeastOneChunkMutant(chunks) == chunks
AtLeastOneChunk(chunks) == IF Len(chunks) = 0 THEN <<<<>>>> ELSE chunks

\* postToMake(payload) is called: the entry of `posts` for it.  `res` is 0
\* while the call is pending, then the status of the response
\* requestWithRetry returned, or -1 if requestWithRetry threw.
PostCall(batch_index) == [batch_index |-> batch_index, res |-> 0]

\* asyncPool has resolved: lines 434-461, up to the first postToMake, if
\* the loop is entered (0 < chunks.length).
\* ENV.MAKE_BATCH_SIZE is fixed when the script is loaded and read here for
\* the first time: its value is drawn at this first read.
MainChunk ==
    /\ run.pc = "pool"
    /\ ppc = "resolved"
    /\ \E b \in 1..MaxBatch :
         LET chunks == AtLeastOneChunk(chunkArray(items, b)) IN
         /\ run' = [run EXCEPT !.pc = IF 0 < Len(chunks) THEN "dispatch" ELSE "done",
                               !.batchSize = b,
                               !.chunks = chunks,
                               !.i = 0,
                               !.countTotal = Len(items)]
         /\ posts' = IF 0 < Len(chunks) THEN Append(posts, PostCall(1)) ELSE posts
         /\ net' = IF 0 < Len(chunks) THEN net \cup {"make"} ELSE net
    /\ UNCHANGED <<retryVars, poolVars, chunkVars, bootVars, window, feeds, lw, items, sink>>

\* The payload of chunk i (lines 454-460).
PayloadMutantIndex(i) ==
    [batch_index |-> i,
     batch_total |-> Len(run.chunks),
     count |-> Len(run.chunks[i + 1]),
     count_total |-> run.countTotal,
     locations_total |-> Len(locations),
     data |-> run.chunks[i + 1]]
PayloadMutantCount(i) ==
    [batch_index |-> i + 1,
     batch_total |-> Len(run.chunks),
     count |-> Len(run.chunks[i + 1]),
     count_total |-> Len(run.chunks[i + 1]),
     locations_total |-> Len(locations),
     data |-> run.chunks[i + 1]]
Payload(i) ==
    [batch_index |-> i + 1,
     batch_total |-> Len(run.chunks),
     count |-> Len(run.chunks[i + 1]),
     count_total |-> run.countTotal,
     locations_total |-> Len(locations),
     data |-> run.chunks[i + 1]]

\* postToMake returns iff requestWithRetry returns a response with res.ok.
PostOkMutant(script) == requestWithRetry(script).pc = "returned"
PostOk(script) ==
    LET r == requestWithRetry(script) IN r.pc = "returned" /\ ResOk(r.res)

\* i++ and the loop condition i < chunks.length (line 453).
MoreChunksMutant(i, chunks) == i + 1 < Len(chunks) - 1
MoreChunks(i, chunks) == i + 1 < Len(chunks)

\* postToMake(payload) settles: postToMake of the next chunk is called,
\* or main ends, or the error reaches main().catch.
MainPost ==
    /\ run.pc = "dispatch"
    /\ \E script \in HttpScripts :
         LET r == requestWithRetry(script)
             settled == [posts EXCEPT ![Len(posts)].res =
                            IF r.pc = "returned" THEN r.res ELSE -1]
         IN \* the webhook takes the payload in iff it answers with a 2xx
            /\ sink' = IF r.pc = "returned" /\ r.res >= 200 /\ r.res <= 299
                       THEN Append(sink, Payload(run.i)) ELSE sink
            /\ IF PostOk(script)
               THEN /\ run' = [run EXCEPT !.i = @ + 1,
                                          !.pc = IF MoreChunks(run.i, run.chunks)
                                                 THEN "dispatch" ELSE "done"]
                    /\ posts' = IF MoreChunks(run.i, run.chunks)
                                THEN Append(settled, PostCall(run.i + 2)) ELSE settled
               ELSE /\ run' = [run EXCEPT !.pc = "failed"]
                    /\ posts' = settled
    /\ UNCHANGED <<retryVars, poolVars, chunkVars, bootVars, window, feeds, lw, items, net>>

(***************************************************************************)
(* The environments the pipeline is run in.                                *)
(***************************************************************************)
\* { start, end } as millis: one civil day.
YesterdayRange == [start |-> 86400000, end |-> 172799999]

\* createTime at instant ms, written with UTC offset off.
At(ms, off) == <<[wall |-> ms + off, offset |-> off]>>
NoCreateTime == <<>>
Rv(id, ct) == [id |-> id, ct |-> ct]

BeforeStart(w) == At(w.start - 1, 0)
AtStart(w) == At(w.start, 7200000)
MidDay(w) == At(w.start + 3600000, 3600000)
AtEnd(w) == At(w.end, 0)
AfterEnd(w) == At(w.end + 1, 7200000)

\* The location of account position l as listLocations returns it.
Loc(l) == [id |-> l, hasMeta |-> (l # 2)]

\* The feed of location l in SpecMain: two pages with two reviews to
\* deliver, three pages with one, and from the third location on a single
\* page with none.
MainFeed(l) ==
    LET w == YesterdayRange IN
    CASE l = 1 ->
           << [reviews |-> <<Rv(1, AtStart(w)), Rv(2, AfterEnd(w))>>, next |-> 2],
              [reviews |-> <<Rv(3, NoCreateTime), Rv(4, AtEnd(w))>>, next |-> 0] >>
      [] l = 2 ->
           << [reviews |-> <<Rv(1, AfterEnd(w))>>, next |-> 2],
              [reviews |-> <<Rv(2, BeforeStart(w))>>, next |-> 3],
              [reviews |-> <<Rv(3, MidDay(w))>>, next |-> 0] >>
      [] OTHER ->
           << [reviews |-> <<Rv(1, BeforeStart(w)), Rv(2, AfterEnd(w))>>, next |-> 0] >>

\* The account's locations as the listing endpoint pages them: one per
\* page here, every page but the last with a nextPageToken; an account
\* without locations answers with one page without `locations`.
LocPageSize == 1
AccountPages(list) ==
    LET n == Len(list)
        np == IF n = 0 THEN 1 ELSE (n + LocPageSize - 1) \div LocPageSize
    IN [p \in 1..np |->
          [locations |-> [k \in 1..MinOf(LocPageSize, n - LocPageSize * (p - 1)) |->
                              list[LocPageSize * (p - 1) + k]],
           next |-> IF p < np THEN p + 1 ELSE 0]]

\* listLocations has returned the locations of the account.
Listed(list) ==
    [pc |-> "returned", pages |-> AccountPages(list), pageToken |-> 0, out |-> list]

InitMain ==
    /\ \E n \in 0..NumLocs :
         /\ InitPoolVars([l \in 1..n |-> Loc(l)])
         /\ feeds = [l \in 1..n |-> MainFeed(l)]
         /\ lw = [l \in 1..n |-> WorkerStart]
         /\ ll = Listed([l \in 1..n |-> Loc(l)])
    /\ window = YesterdayRange
    /\ items = <<>>
    /\ run = [IdleRun EXCEPT !.pc = "pool"]
    /\ sink = <<>>
    /\ rq = IdleRq
    /\ ck = IdleCk
    /\ env = FullEnv
    /\ tr = RunClock
    /\ net = {"token", "locations"}
    /\ posts = <<>>

NextMain ==
    \/ PoolLaunch
    \/ \E i \in DOMAIN lw : LocStart(i)
    \/ \E i \in DOMAIN lw : LocMeta(i)
    \/ \E i \in DOMAIN lw : LocFetch(i)
    \/ \E i \in DOMAIN lw : LocLink(i)
    \/ MainChunk
    \/ MainPost

SpecMain == InitMain /\ [][NextMain]_vars

(***************************************************************************)
(* main from its first line to asyncPool (lines 299-325), getAccessToken   *)
(* (lines 90-114) and listLocations (lines 119-145).                       *)
(* run.pc: "start" (main not entered), "token" (awaiting getAccessToken),  *)
(* "locations" (awaiting listLocations), then as above.                    *)
(* ll.pc: "idle", "fetch" (awaiting a page of locations), "returned",      *)
(* "thrown".                                                               *)
(***************************************************************************)
\* The keys main checks on entry (lines 300-303).
MainKeys ==
    {"GBP_ACCOUNT_ID", "MAKE_REVIEWS_WEBHOOK_URL", "PREFILL_API_URL", "PREFILL_SECRET"}

\* The keys getAccessToken checks before its request (lines 91-93).
TokenKeysMutant == {"GBP_CLIENT_ID", "GBP_CLIENT_SECRET"}
TokenKeys == {"GBP_CLIENT_ID", "GBP_CLIENT_SECRET", "GBP_REFRESH_TOKEN"}

\* main is entered: the mustEnv checks, the range, and getAccessToken up
\* to its request.  A throw of mustEnv, in main or in getAccessToken,
\* rejects main(): main().catch exits with code 1.
MainStart ==
    /\ run.pc = "start"
    /\ IF ~mustEnv(env, MainKeys)
       THEN /\ run' = [run EXCEPT !.pc = "failed"]
            /\ UNCHANGED <<window, net>>
       ELSE /\ window' = RangeMillis(getYesterdayRangeBerlin(tr.zone, tr.now))
            /\ IF mustEnv(env, TokenKeys)
               THEN /\ run' = [run EXCEPT !.pc = "token"]
                    /\ net' = net \cup {"token"}
               ELSE /\ run' = [run EXCEPT !.pc = "failed"]
                    /\ net' = net
    /\ UNCHANGED <<retryVars, poolVars, chunkVars, bootVars, feeds, lw, items, sink, posts>>

\* The body of the token endpoint's response: JSON or not, its access_token.
TokenBody == [json |-> TRUE, access_token |-> "tok"]
NoTokenBody == [json |-> TRUE, access_token |-> ""]
GarbageTokenBody == [json |-> FALSE, access_token |-> ""]

\* What the token endpoint does to the getAccessToken call.
TokenCases ==
    { [script |-> <<Resp(200)>>, body |-> TokenBody],
      [script |-> <<Resp(500), NetErr, Resp(200)>>, body |-> TokenBody],
      [script |-> <<NetErr, NetErr, NetErr, NetErr>>, body |-> GarbageTokenBody],
      [script |-> <<Resp(404)>>, body |-> GarbageTokenBody],
      [script |-> <<Resp(200)>>, body |-> GarbageTokenBody],
      [script |-> <<Resp(200)>>, body |-> NoTokenBody] }

\* getAccessToken returns the token (TRUE) or throws (FALSE).
getAccessToken(c) ==
    LET r == requestWithRetry(c.script) IN
    /\ r.pc = "returned"
    /\ ResOk(r.res)
    /\ c.body.json
    /\ c.body.access_token # ""

\* getAccessToken settles: listLocations is called and makes its first
\* page request, or the error reaches main().catch.
MainToken ==
    /\ run.pc = "token"
    /\ \E c \in TokenCases :
         IF getAccessToken(c)
         THEN /\ run' = [run EXCEPT !.pc = "locations"]
              /\ ll' = [ll EXCEPT !.pc = "fetch"]
              /\ net' = net \cup {"locations"}
         ELSE /\ run' = [run EXCEPT !.pc = "failed"]
              /\ UNCHANGED <<ll, net>>
    /\ UNCHANGED <<retryVars, poolVars, chunkVars, env, tr, window, feeds, lw, items, sink, posts>>

\* The response of the locations endpoint to a request with token tok.
LocationsPage(pages, tok) == pages[IF tok = 0 THEN 1 ELSE tok]

\* One iteration of listLocations' do..while loop, getJson having
\* returned `page` (lines 138-142).
ListPage(l, page) ==
    [l EXCEPT !.out = @ \o page.locations,
              !.pageToken = page.next,
              !.pc = IF page.next # 0 THEN "fetch" ELSE "returned"]

\* getJson throws: listLocations throws with it.
ListThrow(l) == [l EXCEPT !.pc = "thrown"]

\* Where main goes once listLocations has settled (lines 318-325): on to
\* asyncPool, or, nothing catching the error, to main().catch.
AfterListingMutant(l) == "pool"
AfterListing(l) == IF l.pc = "thrown" THEN "failed" ELSE "pool"

\* asyncPool(ENV.CONCURRENCY, list, worker) is entered.
EnterPool(list) ==
    /\ locations' = list
    /\ nextIdx' = 1
    /\ executing' = {}
    /\ wpc' = [k \in 1..Len(list) |-> "idle"]
    /\ ppc' = IF Len(list) = 0 THEN "resolved" ELSE "loop"
    /\ lw' = [k \in 1..Len(list) |-> WorkerStart]
    /\ UNCHANGED limit

\* A page request of listLocations is answered.
MainList ==
    /\ run.pc = "locations"
    /\ ll.pc = "fetch"
    /\ \E script \in HttpScripts :
         LET l2 == IF GetJsonOk(script)
                   THEN ListPage(ll, LocationsPage(ll.pages, ll.pageToken))
                   ELSE ListThrow(ll)
         IN /\ ll' = l2
            /\ IF l2.pc = "fetch"
               THEN UNCHANGED <<poolVars, lw, run>>
               ELSE /\ run' = [run EXCEPT !.pc = AfterListing(l2)]
                    /\ IF AfterListing(l2) = "pool"
                       THEN EnterPool(l2.out)
                       ELSE UNCHANGED <<poolVars, lw>>
    /\ UNCHANGED <<retryVars, chunkVars, env, tr, logVars, window, feeds, items, sink>>

RECURSIVE LocsOf(_)
\* The locations with the ids of S, as the listing orders them.
LocsOf(S) ==
    IF S = {} THEN <<>>
    ELSE LET m == CHOOSE x \in S : \A y \in S : x <= y
         IN <<Loc(m)>> \o LocsOf(S \ {m})

\* The whole run, for every setting of the required keys and every account
\* of up to MaxBootLocs of the locations 1..MaxBootLocs + 1.
InitBoot ==
    /\ env \in [EnvKeys -> BOOLEAN]
    /\ \E S \in SUBSET (1..(MaxBootLocs + 1)) :
         /\ Cardinality(S) <= MaxBootLocs
         /\ ll = [IdleLl EXCEPT !.pages = AccountPages(LocsOf(S))]
    /\ feeds = [l \in 1..(MaxBootLocs + 1) |-> MainFeed(l)]
    /\ tr = RunClock
    /\ locations = <<>>
    /\ limit \in 1..MaxLimit
    /\ ppc = "idle"
    /\ nextIdx = 1
    /\ executing = {}
    /\ wpc = <<>>
    /\ window = IdleWindow
    /\ lw = <<>>
    /\ items = <<>>
    /\ run = [IdleRun EXCEPT !.pc = "start"]
    /\ sink = <<>>
    /\ net = {}
    /\ posts = <<>>
    /\ rq = IdleRq
    /\ ck = IdleCk

NextBoot ==
    \/ MainStart
    \/ MainToken
    \/ MainList
    \/ NextMain

SpecBoot == InitBoot /\ [][NextBoot]_vars

(***************************************************************************)
(* The pool and the dispatch for an account of two locations whose first   *)
(* location has several reviews of the window in one page and more in the  *)
(* next page.                                                              *)
(***************************************************************************)
OrderFeed(l) ==
    LET w == YesterdayRange IN
    IF l = 1
    THEN << [reviews |-> <<Rv(1, AtStart(w)), Rv(2, AfterEnd(w)), Rv(5, MidDay(w))>>,
             next |-> 2],
            [reviews |-> <<Rv(3, NoCreateTime), Rv(4, AtEnd(w))>>, next |-> 0] >>
    ELSE MainFeed(l)

InitOrder ==
    /\ InitPoolVars(<<Loc(1), Loc(2)>>)
    /\ feeds = <<OrderFeed(1), OrderFeed(2)>>
    /\ lw = <<WorkerStart, WorkerStart>>
    /\ ll = Listed(<<Loc(1), Loc(2)>>)
    /\ window = YesterdayRange
    /\ items = <<>>
    /\ run = [IdleRun EXCEPT !.pc = "pool"]
    /\ sink = <<>>
    /\ rq = IdleRq
    /\ ck = IdleCk
    /\ env = FullEnv
    /\ tr = RunClock
    /\ net = {"token", "locations"}
    /\ posts = <<>>

SpecOrder == InitOrder /\ [][NextMain]_vars

(***************************************************************************)
(* getYesterdayRangeBerlin for every zone rule and for DateTime.now() at   *)
(* every full hour of days 1..MaxNowDay, one millisecond later, and one    *)
(* millisecond before the next full hour.                                  *)
(***************************************************************************)
Nows ==
    {d * Day + h * Hour + e : d \in 1..MaxNowDay, h \in 0..23, e \in {0, 1, Hour - 1}}

RangeCall ==
    /\ tr.pc = "call"
    /\ window' = RangeMillis(getYesterdayRangeBerlin(tr.zone, tr.now))
    /\ tr' = [tr EXCEPT !.pc = "done"]
    /\ UNCHANGED <<retryVars, poolVars, chunkVars, logVars, env, ll, feeds, lw, items, run, sink>>

InitRange ==
    /\ \E z \in ZoneRules : \E t \in Nows : tr = [pc |-> "call", zone |-> z, now |-> t]
    /\ env = FullEnv
    /\ ll = IdleLl
    /\ rq = IdleRq
    /\ IdlePool
    /\ IdleMain
    /\ ck = IdleCk

NextRange == RangeCall

SpecRange == InitRange /\ [][NextRange]_vars

(***************************************************************************)
(* listReviewsForLocation against every feed made of up to MaxPages pages  *)
(* of the kinds below: the worker of a single location, from its first     *)
(* page request on.                                                        *)
(***************************************************************************)
\* The createTimes of the reviews of a page, by kind of page.
PageKinds(w) ==
    { <<>>,                                 \* no reviews
      <<NoCreateTime, BeforeStart(w)>>,     \* nothing at or after the start
      <<AtStart(w)>>,                       \* in the window
      <<AfterEnd(w)>>,                      \* newer than the window
      <<BeforeStart(w), AtEnd(w)>> }        \* old and in the window

\* The feed whose pages are of kinds ks: every page but the last carries a
\* nextPageToken.
FeedOf(ks) ==
    [p \in 1..Len(ks) |->
        [reviews |-> [k \in 1..Len(ks[p]) |-> Rv(10 * p + k, ks[p][k])],
         next |-> IF p < Len(ks) THEN p + 1 ELSE 0]]

InitHarvest ==
    /\ window = YesterdayRange
    /\ \E n \in 1..MaxPages : \E ks \in [1..n -> PageKinds(YesterdayRange)] :
          feeds = <<FeedOf(ks)>>
    /\ locations = <<Loc(1)>>
    /\ limit = 1
    /\ nextIdx = 2
    /\ executing = {1}
    /\ wpc = <<"running">>
    /\ ppc = "race"
    /\ lw = <<[WorkerStart EXCEPT !.phase = "harvest"]>>
    /\ items = <<>>
    /\ run = [IdleRun EXCEPT !.pc = "pool"]
    /\ sink = <<>>
    /\ rq = IdleRq
    /\ ck = IdleCk
    /\ env = FullEnv
    /\ ll = Listed(<<Loc(1)>>)
    /\ tr = RunClock
    /\ net = {"token", "locations", "reviews"}
    /\ posts = <<>>

NextHarvest == \E i \in DOMAIN lw : LocFetch(i)

SpecHarvest == InitHarvest /\ [][NextHarvest]_vars

(***************************************************************************)
(* The dispatch fetch by fetch: main from its first postToMake call on,    *)
(* for a run that collected up to MaxSent records from one location.  rq   *)
(* is the requestWithRetry call of the postToMake call under way; each of  *)
(* its fetches sends the payload to the webhook.                           *)
(***************************************************************************)
\* A page of n reviews of the window, the only page of the feed.
SentPage(n) ==
    [reviews |-> [k \in 1..n |-> Rv(k, AtStart(YesterdayRange))], next |-> 0]

\* The worker's locals once it has harvested SentPage(n) and linked its
\* reviews, no link call failing.
WorkerDone(n) ==
    [phase |-> "done",
     h |-> HarvestPage(HarvestStart, SentPage(n), YesterdayRange),
     k |-> n,
     linked |-> [k \in 1..n |-> FALSE]]

\* requestWithRetry has settled for the postToMake call under way (lines
\* 265-269), and the dispatch loop goes on (lines 453-470): postToMake of
\* the next chunk is called, or main ends, or the error reaches
\* main().catch.
PostSettle ==
    /\ run.pc = "dispatch"
    /\ rq.pc \in {"returned", "thrown"}
    /\ LET ok == rq.pc = "returned" /\ ResOk(rq.res)
           settled == [posts EXCEPT ![Len(posts)].res =
                          IF rq.pc = "returned" THEN rq.res ELSE -1]
       IN /\ sink' = IF ok THEN Append(sink, Payload(run.i)) ELSE sink
          /\ IF ok
             THEN /\ run' = [run EXCEPT !.i = @ + 1,
                                        !.pc = IF MoreChunks(run.i, run.chunks)
                                               THEN "dispatch" ELSE "done"]
                  /\ posts' = IF MoreChunks(run.i, run.chunks)
                              THEN Append(settled, PostCall(run.i + 2)) ELSE settled
                  /\ rq' = IF MoreChunks(run.i, run.chunks)
                           THEN RetryStart(DefaultRetries, BaseBackoffMs) ELSE rq
             ELSE /\ run' = [run EXCEPT !.pc = "failed"]
                  /\ posts' = settled
                  /\ rq' = rq
    /\ UNCHANGED <<poolVars, chunkVars, bootVars, window, feeds, lw, items, net>>

InitDeliver ==
    /\ \E n \in 0..MaxSent : \E b \in 1..MaxBatch :
         /\ feeds = <<<<SentPage(n)>>>>
         /\ lw = <<WorkerDone(n)>>
         /\ items = [k \in 1..n |->
                       Record(Loc(1), SentPage(n).reviews[k],
                              LinkLocals([script |-> <<Resp(200)>>, body |-> RidBody]))]
         /\ run = [pc |-> "dispatch", batchSize |-> b,
                   chunks |-> AtLeastOneChunk(chunkArray(items, b)),
                   i |-> 0, countTotal |-> n]
         /\ net = IF n = 0 THEN {"token", "locations", "reviews", "make"}
                  ELSE {"token", "locations", "reviews", "prefill", "make"}
    /\ locations = <<Loc(1)>>
    /\ limit = 1
    /\ nextIdx = 2
    /\ executing = {}
    /\ wpc = <<"fulfilled">>
    /\ ppc = "resolved"
    /\ window = YesterdayRange
    /\ sink = <<>>
    /\ posts = <<PostCall(1)>>
    /\ rq = RetryStart(DefaultRetries, BaseBackoffMs)
    /\ ck = IdleCk
    /\ env = FullEnv
    /\ ll = Listed(<<Loc(1)>>)
    /\ tr = RunClock

NextDeliver == RetryAttempt \/ RetryExhausted \/ PostSettle

SpecDeliver == InitDeliver /\ [][NextDeliver]_vars

(***************************************************************************)
(* Claims about requestWithRetry                                           *)
(***************************************************************************)
Transient(o) == o.net \/ o.status \in {429, 500, 502, 503, 504}

\* C8: a call makes at most N fetches; it throws only after N fetches that
\* all ended in a network failure or a status in {429,500,502,503,504},
\* and what it throws is the error of the last fetch: that fetch's status,
\* or its network exception.
C8_RetryBound ==
    /\ Len(rq.log) <= rq.retries
    /\ rq.pc = "thrown" =>
         /\ Len(rq.log) = rq.retries
         /\ \A k \in 1..Len(rq.log) : Transient(rq.log[k])
         /\ rq.err.attempt = rq.retries
         /\ LET last == rq.log[Len(rq.log)] IN
              IF last.net THEN rq.err.kind = "net"
              ELSE rq.err.kind = "http" /\ rq.err.status = last.status

C8_Witness ==
    /\ rq.pc = "thrown"
    /\ rq.retries = DefaultRetries
    /\ rq.log[1].net
    /\ rq.log[DefaultRetries].status = 503
    /\ rq.err.status = 503

\* C9: the first response whose status is not in {429,500,502,503,504} is
\* returned at once: it is the last fetch of the call, the call returns
\* its status and raises no error.  A 404 on the first fetch is returned
\* after one fetch; two transient failures then a 200 return the 200
\* after three fetches.
C9_FirstFinalResponse ==
    /\ \A k \in 1..Len(rq.log) :
          ~Transient(rq.log[k]) =>
             /\ k = Len(rq.log)
             /\ rq.pc = "returned"
             /\ rq.res = rq.log[k].status
             /\ rq.err = NoErr
    /\ rq.pc = "returned" =>
          /\ Len(rq.log) >= 1 /\ Len(rq.log) <= rq.retries
          /\ ~Transient(rq.log[Len(rq.log)])
    /\ (Len(rq.log) >= 1 /\ ~rq.log[1].net /\ rq.log[1].status = 404) =>
          (rq.pc = "returned" /\ Len(rq.log) = 1 /\ rq.res = 404)
    /\ (/\ Len(rq.log) >= 3
        /\ Transient(rq.log[1]) /\ Transient(rq.log[2])
        /\ ~rq.log[3].net /\ rq.log[3].status = 200) =>
          (rq.pc = "returned" /\ Len(rq.log) = 3 /\ rq.res = 200)

C9_Witness ==
    /\ rq.pc = "returned"
    /\ Len(rq.log) = 3
    /\ rq.log[1].net
    /\ ~rq.log[2].net /\ rq.log[2].status = 502
    /\ rq.res = 200

(***************************************************************************)
(* Claims about chunkArray                                                 *)
(***************************************************************************)
RECURSIVE Flatten(_)
Flatten(ss) == IF ss = <<>> THEN <<>> ELSE Head(ss) \o Flatten(Tail(ss))

Iota(n) == [k \in 1..n |-> k]
ChunkSizes(cs) == [k \in 1..Len(cs) |-> Len(cs[k])]

\* C10: for size >= 1 the chunks concatenate to the input, every chunk
\* but the last has exactly `size` elements and the last holds the
\* non-empty remainder; 205 records with size 200 give sizes <<200, 5>>.
C10_ChunkPartition ==
    (ck.pc = "done" /\ ck.size >= 1) =>
        /\ Flatten(ck.out) = ck.arr
        /\ \A k \in 1..Len(ck.out) :
              /\ Len(ck.out[k]) >= 1
              /\ Len(ck.out[k]) <= ck.size
              /\ k < Len(ck.out) => Len(ck.out[k]) = ck.size
        /\ ChunkSizes(chunkArray(Iota(205), 200)) = <<200, 5>>

C10_Witness ==
    /\ ck.pc = "done"
    /\ ck.size = 2
    /\ Len(ck.arr) = 5
    /\ ChunkSizes(ck.out) = <<2, 2, 1>>

(***************************************************************************)
(* Claims about asyncPool                                                  *)
(***************************************************************************)
\* C1: at no point are more than `limit` worker invocations started and
\* not yet finished, whatever the order in which they complete.
C1_ConcurrencyBound == Cardinality(InFlight) <= limit

C1_Witness ==
    /\ limit = 2
    /\ Cardinality(InFlight) = limit
    /\ ppc = "race"
    /\ nextIdx <= Len(locations)
    /\ \E i \in DOMAIN wpc : wpc[i] = "fulfilled"

\* C2: with two or more items, a worker that throws for one item neither
\* makes the pool fail as a whole nor keeps the worker from being invoked
\* for every other item: the promise asyncPool returns is never rejected,
\* and no item is left without its worker invocation once it has settled.
C2_ErrorIsolation ==
    Len(locations) >= 2 =>
        /\ ppc # "rejected"
        /\ ppc = "resolved" => \A i \in DOMAIN wpc : wpc[i] # "idle"

(***************************************************************************)
(* Claims about the harvest and the pipeline                               *)
(***************************************************************************)
\* The records of the batches the webhook has accepted, concatenated.
Delivered == Flatten([b \in 1..Len(sink) |-> sink[b].data])

RecordsOfLoc(list, id) == SelectSeq(list, LAMBDA rec : rec.locationId = id)
ReviewIds(list) == [k \in 1..Len(list) |-> list[k].reviewId]
IdsOf(reviews) == [k \in 1..Len(reviews) |-> reviews[k].id]
AllReviews(feed) == Flatten([p \in 1..Len(feed) |-> feed[p].reviews])

\* The review has a creation time t with w.start <= t <= w.end.
Within(r, w) ==
    /\ r.ct # <<>>
    /\ w.start <= r.ct[1].wall - r.ct[1].offset
    /\ r.ct[1].wall - r.ct[1].offset <= w.end

CreatedAfter(r, t) == r.ct # <<>> /\ r.ct[1].wall - r.ct[1].offset > t

\* No review of the page was created at or after w.start.
Stale(page, w) ==
    \A k \in 1..Len(page.reviews) :
        \/ page.reviews[k].ct = <<>>
        \/ page.reviews[k].ct[1].wall - page.reviews[k].ct[1].offset < w.start

InWindowReviews(feed, w) == SelectSeq(AllReviews(feed), LAMBDA r : Within(r, w))

FeedAt(i) == feeds[locations[i].id]
HarvestFailed(i) == lw[i].h.pc = "thrown"
LocPos(id) == CHOOSE i \in DOMAIN locations : locations[i].id = id
SourceReview(rec) ==
    LET all == AllReviews(feeds[rec.locationId])
    IN all[CHOOSE k \in 1..Len(all) : all[k].id = rec.reviewId]

\* C3: a location whose harvest fails never aborts the fan-out, and every
\* location whose harvest did not fail has all its in-window reviews in
\* the collected list when chunking starts and in the delivered batches
\* when the run is done, wherever the failing location stands in the list
\* and whatever the limit.
C3_LocationFailureIsolation ==
    /\ ppc # "rejected"
    /\ run.pc \in {"dispatch", "done", "failed"} =>
          \A i \in DOMAIN lw : ~HarvestFailed(i) =>
              ReviewIds(RecordsOfLoc(items, locations[i].id))
                  = IdsOf(InWindowReviews(FeedAt(i), window))
    /\ run.pc = "done" =>
          \A i \in DOMAIN lw : ~HarvestFailed(i) =>
              ReviewIds(RecordsOfLoc(Delivered, locations[i].id))
                  = IdsOf(InWindowReviews(FeedAt(i), window))

C3_Witness ==
    /\ run.pc = "done"
    /\ Len(locations) = 3
    /\ HarvestFailed(2) /\ lw[2].h.fetched = 2
    /\ ReviewIds(RecordsOfLoc(Delivered, 1)) = <<1, 4>>
    /\ RecordsOfLoc(Delivered, 2) = <<>>

\* C4: in the concatenation of the delivered batches every record of an
\* earlier-listed location precedes every record of a later-listed one.
C4_ListOrder ==
    \A a, b \in 1..Len(Delivered) :
        a < b => LocPos(Delivered[a].locationId) <= LocPos(Delivered[b].locationId)

\* C5: the harvest stops as soon as the two pages fetched last hold no
\* review created at or after the window start, and fetches nothing
\* after such a pair; page 5 of a 5-page feed whose pages 3 and 4 hold no
\* such review is never fetched, and when its pages 1 to 4 are non-empty
\* and pages 3 and 4 are the first such pair exactly pages 1 to 4 are.
C5_EarlyTermination ==
    \A i \in DOMAIN lw :
        LET h == lw[i].h
            f == FeedAt(i)
            n == h.fetched
        IN /\ n <= Len(f)
           /\ (n >= 2 /\ Stale(f[n - 1], window) /\ Stale(f[n], window)) => h.pc # "fetch"
           /\ \A p \in 2..(n - 1) : ~(Stale(f[p - 1], window) /\ Stale(f[p], window))
           /\ (Len(f) = 5 /\ Stale(f[3], window) /\ Stale(f[4], window)) => n <= 4
           /\ (/\ Len(f) = 5
               /\ \A p \in 1..4 : Len(f[p].reviews) > 0
               /\ ~Stale(f[2], window)
               /\ Stale(f[3], window) /\ Stale(f[4], window)) =>
                  /\ n <= 4
                  /\ h.pc = "returned" => n = 4

C5_Witness ==
    /\ Len(feeds[1]) = 5
    /\ ~Stale(feeds[1][1], window) /\ ~Stale(feeds[1][2], window)
    /\ Len(feeds[1][3].reviews) > 0 /\ Stale(feeds[1][3], window)
    /\ Len(feeds[1][4].reviews) > 0 /\ Stale(feeds[1][4], window)
    /\ ~Stale(feeds[1][5], window)
    /\ feeds[1][4].next = 5
    /\ lw[1].h.pc = "returned"
    /\ lw[1].h.fetched = 4

\* C6: every record collected or delivered comes from a review whose
\* creation time t satisfies start <= t <= end, so a review created after
\* the end, or without creation time, is never output; yet a page with a
\* review created after the end resets the cutoff counter.
C6_RecordsWithinWindow ==
    /\ \A k \in 1..Len(items) : Within(SourceReview(items[k]), window)
    /\ \A k \in 1..Len(Delivered) : Within(SourceReview(Delivered[k]), window)
    /\ \A i \in DOMAIN lw :
          LET h == lw[i].h IN
          (/\ h.pc \in {"fetch", "returned"}
           /\ h.fetched >= 1
           /\ \E k \in 1..Len(FeedAt(i)[h.fetched].reviews) :
                 CreatedAfter(FeedAt(i)[h.fetched].reviews[k], window.end))
             => h.pagesBelowCutoff = 0

C6_Witness ==
    /\ run.pc = "done"
    /\ Len(locations) >= 2
    /\ CreatedAfter(feeds[1][1].reviews[2], window.end)
    /\ feeds[1][2].reviews[1].ct = <<>>
    /\ ReviewIds(RecordsOfLoc(Delivered, 1)) = <<1, 4>>
    /\ ReviewIds(RecordsOfLoc(Delivered, 2)) = <<3>>

\* C7: for every review whose link call was made the record is in the
\* list, and if the call failed (retries exhausted, non-2xx, unparsable
\* body, missing rid) the record has prefill_rid = null and a non-empty
\* prefill_error; the other reviews of the location and the other
\* locations are processed all the same, and all records are delivered.
C7_LinkFailureIsolation ==
    /\ \A i \in DOMAIN lw :
          LET recs == RecordsOfLoc(items, locations[i].id) IN
          /\ Len(recs) = Len(lw[i].linked)
          /\ \A k \in 1..Len(recs) :
                /\ recs[k].reviewId = lw[i].h.out[k].id
                /\ lw[i].linked[k] =>
                      /\ recs[k].prefill_rid = Null
                      /\ recs[k].prefill_error \notin {Null, ""}
          /\ (wpc[i] = "fulfilled" /\ lw[i].h.pc = "returned") =>
                Len(recs) = Len(lw[i].h.out)
    /\ (\E i \in DOMAIN lw : \E k \in 1..Len(lw[i].linked) : lw[i].linked[k]) =>
          ppc # "rejected"
    /\ run.pc = "done" => Delivered = items

C7_Witness ==
    /\ run.pc = "done"
    /\ Len(locations) >= 2
    /\ lw[1].linked = <<TRUE, FALSE>>
    /\ lw[2].linked = <<TRUE>>
    /\ Len(Delivered) = 3
    /\ {Delivered[k].prefill_error : k \in 1..3} =
          {Null, "Prefill response missing rid", "Unexpected token in JSON"}

(***************************************************************************)
(* Claims about the dispatch                                               *)
(***************************************************************************)
\* The response was a 2xx.
Accepted(res) == res >= 200 /\ res <= 299
\* The postToMake call has settled.
Settled(post) == post.res # 0

ZeroBatch ==
    [batch_index |-> 1, batch_total |-> 1, count |-> 0, count_total |-> 0,
     locations_total |-> Len(locations), data |-> <<>>]

\* C11: when the run has collected no record (no location, no review in
\* the window, or every harvest failed), exactly one batch is POSTed; it
\* has batch_index = 1, batch_total = 1, count = 0, count_total = 0 and
\* an empty data list, and it is what the webhook has received when the
\* run is done.
C11_ZeroRecordBatch ==
    (ppc = "resolved" /\ run.pc \in {"dispatch", "done", "failed"} /\ Len(items) = 0) =>
        /\ Len(posts) = 1 /\ posts[1].batch_index = 1
        /\ Len(run.chunks) = 1
        /\ Payload(0) = ZeroBatch
        /\ run.pc = "done" => sink = <<ZeroBatch>>
        /\ run.pc # "done" => sink = <<>>

C11_Witness ==
    /\ run.pc = "done"
    /\ Len(locations) = 1
    /\ lw[1].h.pc = "returned"
    /\ lw[1].h.fetched = 1
    /\ sink = <<ZeroBatch>>

\* C12: the batches are POSTed one at a time in ascending batch_index
\* 1..batch_total: the k-th postToMake call carries batch k, it is made
\* only once the calls for batches 1..k-1 have got a 2xx response, and at
\* most one call is pending at any time.
C12_SequentialDelivery ==
    /\ \A k \in 1..Len(posts) :
          /\ posts[k].batch_index = k
          /\ k <= Len(run.chunks)
          /\ k < Len(posts) => Accepted(posts[k].res)
    /\ \A k \in 1..Len(sink) :
          /\ sink[k].batch_index = k
          /\ sink[k].data = run.chunks[k]
    /\ Len(posts) <= Len(sink) + 1
    /\ Cardinality({k \in 1..Len(posts) : ~Settled(posts[k])}) <= 1
    /\ (\E k \in 1..Len(posts) : ~Settled(posts[k])) <=> run.pc = "dispatch"

C12_Witness ==
    /\ run.pc = "dispatch"
    /\ Len(run.chunks) = 3
    /\ Len(posts) = 3
    /\ Len(sink) = 2
    /\ ~Settled(posts[3])

\* C13: a delivery of batch i that ends in a non-2xx response or in
\* exhausted retries ends the run with a non-zero exit code: no batch
\* after i is POSTed, and batches 1..i-1 stay delivered; the run exits
\* with 0 only if every batch 1..batch_total got a 2xx response.
C13_DeliveryFailureFatal ==
    /\ \A k \in 1..Len(posts) :
          (Settled(posts[k]) /\ ~Accepted(posts[k].res)) =>
              /\ run.pc = "failed"
              /\ Len(posts) = k
              /\ Len(sink) = k - 1
              /\ \A j \in 1..(k - 1) : sink[j].batch_index = j
    /\ run.pc = "done" =>
          /\ Len(posts) = Len(run.chunks)
          /\ \A k \in 1..Len(posts) : Accepted(posts[k].res)
          /\ Len(sink) = Len(run.chunks)

C13_Witness ==
    /\ run.pc = "failed"
    /\ Len(run.chunks) = 3
    /\ Len(posts) = 2
    /\ posts[2].res = 404
    /\ Len(sink) = 1

(***************************************************************************)
(* Claims about the start of the run                                       *)
(***************************************************************************)
\* C14: if any of the seven required settings is empty, no HTTP request of
\* any kind is ever issued and the run, once main has been entered, has
\* ended with a non-zero exit code.
C14_MissingSettingFatal ==
    (\E k \in EnvKeys : ~env[k]) =>
        /\ net = {}
        /\ posts = <<>> /\ sink = <<>>
        /\ run.pc \in {"start", "failed"}

C14_Witness ==
    /\ \A k \in EnvKeys : env[k] <=> k # "GBP_REFRESH_TOKEN"
    /\ run.pc = "failed"
    /\ window = YesterdayRange
    /\ net = {}

\* C15: if a page request of listLocations fails (retries exhausted or a
\* non-2xx response), the run ends with a non-zero exit code, no page of
\* reviews is ever requested and no batch is POSTed, the zero-record
\* batch included.
C15_ListingFailureFatal ==
    ll.pc = "thrown" =>
        /\ run.pc = "failed"
        /\ net = {"token", "locations"}
        /\ ppc = "idle"
        /\ posts = <<>> /\ sink = <<>>

C15_Witness ==
    /\ ll.pc = "thrown"
    /\ Len(ll.pages) = 2
    /\ ll.out = <<Loc(1)>>
    /\ run.pc = "failed"

(***************************************************************************)
(* Further claims about the pipeline                                       *)
(***************************************************************************)
\* C16: a location whose harvest fails has no record in the collected
\* list nor in the delivered batches, the reviews of the pages fetched
\* before the failing one included; its worker returns normally, the pool
\* does not fail, and the run fails only if a delivery is not accepted:
\* when it is done the other records are delivered.
C16_FailedLocationEmpty ==
    /\ \A i \in DOMAIN lw :
          lw[i].h.pc = "thrown" =>
              /\ RecordsOfLoc(items, locations[i].id) = <<>>
              /\ RecordsOfLoc(Delivered, locations[i].id) = <<>>
              /\ lw[i].linked = <<>>
              /\ wpc[i] = "fulfilled"
    /\ (\E i \in DOMAIN lw : lw[i].h.pc = "thrown") =>
          /\ ppc # "rejected"
          /\ run.pc = "failed" =>
                (Len(posts) >= 1 /\ ~Accepted(posts[Len(posts)].res))
          /\ run.pc = "done" =>
                /\ Delivered = items
                /\ \A k \in 1..Len(posts) : Accepted(posts[k].res)

C16_Witness ==
    /\ run.pc = "done"
    /\ locations = <<Loc(1), Loc(2)>>
    /\ lw[1].h.pc = "thrown"
    /\ lw[1].h.fetched = 1
    /\ IdsOf(lw[1].h.out) = <<1>>
    /\ ReviewIds(Delivered) = <<3>>
    /\ Delivered[1].locationId = 2

RECURSIVE SumCounts(_)
SumCounts(batches) ==
    IF batches = <<>> THEN 0 ELSE Head(batches).count + SumCounts(Tail(batches))

\* C17: in every delivered payload count is the length of data,
\* count_total is the number of records collected and batch_total is the
\* same number in every payload; when the run is done, batch_total
\* payloads were delivered and their counts add up to count_total.
C17_PayloadConsistency ==
    /\ \A k \in 1..Len(sink) :
          /\ sink[k].count = Len(sink[k].data)
          /\ sink[k].count_total = Len(items)
          /\ sink[k].batch_total = sink[1].batch_total
          /\ Len(sink) <= sink[k].batch_total
    /\ run.pc = "done" =>
          /\ Len(sink) = sink[1].batch_total
          /\ SumCounts(sink) = sink[1].count_total
          /\ SumCounts(sink) = Len(items)

C17_Witness ==
    /\ run.pc = "done"
    /\ Len(sink) = 2
    /\ sink[1].count = 2 /\ sink[2].count = 1
    /\ sink[2].count_total = 3
    /\ sink[2].batch_total = 2

IsPrefix(a, b) == Len(a) <= Len(b) /\ a = SubSeq(b, 1, Len(a))

\* C18: under every interleaving of the workers, the records of one
\* location, in the collected list and in the delivered batches, are in
\* the order in which the feed returned their reviews (page by page, and
\* within a page in the order of the page): they are an initial part of
\* the location's in-window reviews in feed order, and, when the run is
\* done and the harvest did not fail, all those of the pages harvested.
C18_FeedOrderKept ==
    \A i \in DOMAIN lw :
        LET src == IdsOf(InWindowReviews(FeedAt(i), window))
            got == IdsOf(InWindowReviews(SubSeq(FeedAt(i), 1, lw[i].h.fetched), window))
            col == ReviewIds(RecordsOfLoc(items, locations[i].id))
            del == ReviewIds(RecordsOfLoc(Delivered, locations[i].id))
        IN /\ IsPrefix(col, src)
           /\ IsPrefix(del, col)
           /\ (run.pc = "done" /\ lw[i].h.pc = "returned") => del = got

C18_Witness ==
    /\ run.pc = "done"
    /\ Len(Delivered) = 4
    /\ Delivered[1].locationId = 1 /\ Delivered[1].reviewId = 1
    /\ Delivered[2].locationId = 1 /\ Delivered[2].reviewId = 5
    /\ Delivered[3].locationId = 2
    /\ Delivered[4].locationId = 1 /\ Delivered[4].reviewId = 4

(***************************************************************************)
(* Claims about getYesterdayRangeBerlin                                    *)
(***************************************************************************)
\* The wall clock Europe/Berlin shows at instant t.
BerlinWall(t) == t + ZoneOffset(tr.zone, t) - CET
\* The civil day of Europe/Berlin instant t lies in.
BerlinDay(t) == BerlinWall(t) \div Day
\* Europe/Berlin changes its offset within the window.
ChangeInWindow ==
    /\ tr.zone.before # tr.zone.after
    /\ window.start <= tr.zone.at
    /\ tr.zone.at <= window.end

\* The window starts at 00:00:00.000 and ends at 23:59:59.999 of the
\* civil day before the one `now` lies in.
IsYesterday ==
    /\ window.start <= window.end
    /\ BerlinWall(window.start) = (BerlinDay(tr.now) - 1) * Day
    /\ BerlinWall(window.end) = BerlinDay(tr.now) * Day - 1

\* C19 as stated: the window is the civil day before `now`, from local
\* midnight to local 23:59:59.999, with start <= end, and its start is
\* exactly 24h minus 1ms before its end, also across a change of offset.
C19_Exactly24h ==
    tr.pc = "done" =>
        /\ IsYesterday
        /\ window.end - window.start = Day - 1

\* C19 amended: the window is the civil day before `now`, from local
\* midnight to local 23:59:59.999, with start <= end; its start is 24h
\* minus 1ms before its end unless the offset changes on that day, and
\* 23h minus 1ms (spring) or 25h minus 1ms (autumn) before it if it does.
C19_CivilDayWindow ==
    tr.pc = "done" =>
        /\ IsYesterday
        /\ ~ChangeInWindow => window.end - window.start = Day - 1
        /\ (ChangeInWindow /\ tr.zone = SpringForward) =>
               window.end - window.start = 23 * Hour - 1
        /\ (ChangeInWindow /\ tr.zone = FallBack) =>
               window.end - window.start = 25 * Hour - 1

C19_Witness ==
    /\ tr.pc = "done"
    /\ tr.zone = FallBack
    /\ ChangeInWindow
    /\ BerlinWall(tr.now) = 3 * Day + 2 * Hour + 1
    /\ window.end - window.start = 25 * Hour - 1

(***************************************************************************)
(* Claims about the cutoff counter                                         *)
(***************************************************************************)
RECURSIVE TrailingStale(_, _, _)
\* How many of the pages f[1..n], counted back from f[n], have no review
\* created at or after w.start, up to the first page that has one.
TrailingStale(f, n, w) ==
    IF n = 0 \/ ~Stale(f[n], w) THEN 0 ELSE 1 + TrailingStale(f, n - 1, w)

\* C20: while the harvest paginates, and when it ends on a page with
\* reviews, the cutoff counter is the number of pages fetched last, one
\* after the other, without a review created at or after the window
\* start: a page with such a review resets it to 0.  So one such page
\* alone does not end the harvest: it ends on a page with reviews and a
\* next-page token only if the page before had none either, and the
\* in-window reviews of every page fetched are in the result.
C20_CounterResets ==
    \A i \in DOMAIN lw :
        LET h == lw[i].h
            f == FeedAt(i)
            n == h.fetched
        IN /\ (h.pc = "fetch" \/ (h.pc = "returned" /\ Len(f[n].reviews) > 0)) =>
                 /\ h.pagesBelowCutoff = TrailingStale(f, n, window)
                 /\ (n >= 1 /\ ~Stale(f[n], window)) => h.pagesBelowCutoff = 0
           /\ (h.pc = "returned" /\ Len(f[n].reviews) > 0 /\ f[n].next # 0) =>
                 (n >= 2 /\ Stale(f[n], window) /\ Stale(f[n - 1], window))
           /\ h.pc \in {"fetch", "returned"} =>
                 IdsOf(h.out) = IdsOf(InWindowReviews(SubSeq(f, 1, n), window))

C20_Witness ==
    /\ Len(feeds[1]) = 5
    /\ lw[1].h.fetched = 4
    /\ lw[1].h.pc = "fetch"
    /\ Len(feeds[1][2].reviews) > 0 /\ Stale(feeds[1][2], window)
    /\ Len(feeds[1][3].reviews) = 2 /\ Within(feeds[1][3].reviews[2], window)
    /\ Len(feeds[1][4].reviews) > 0 /\ Stale(feeds[1][4], window)
    /\ lw[1].h.pagesBelowCutoff = 1
    /\ IdsOf(lw[1].h.out) = <<11, 32>>

(***************************************************************************)
(* Claims about the shared result list                                     *)
(***************************************************************************)
\* The in-window reviews of the pages the harvest of item i was answered.
Harvested(i) == InWindowReviews(SubSeq(FeedAt(i), 1, lw[i].h.fetched), window)

\* C21: under every interleaving of the workers, once chunking has started
\* every worker has returned, and the collected list holds exactly one
\* record per in-window review of every location whose harvest did not fail
\* and none of any other: no record is lost and none is there twice.  The
\* list is never appended to after that: count_total, and the chunks the
\* batches are POSTed from, are those of the list as it is.
C21_AppendsCompleteBeforeDispatch ==
    run.pc \in {"dispatch", "done", "failed"} =>
        /\ \A i \in DOMAIN lw :
              /\ wpc[i] = "fulfilled"
              /\ lw[i].phase = "done"
              /\ ReviewIds(RecordsOfLoc(items, locations[i].id)) =
                    IF HarvestFailed(i) THEN <<>> ELSE IdsOf(Harvested(i))
              /\ ~HarvestFailed(i) =>
                    IdsOf(Harvested(i)) = IdsOf(InWindowReviews(FeedAt(i), window))
        /\ \A k \in 1..Len(items) : \E i \in DOMAIN lw : items[k].locationId = locations[i].id
        /\ \A a, b \in 1..Len(items) :
              (items[a].locationId = items[b].locationId
                 /\ items[a].reviewId = items[b].reviewId) => a = b
        /\ run.countTotal = Len(items)
        /\ Flatten(run.chunks) = items

C21_Witness ==
    /\ run.pc = "dispatch"
    /\ limit = 2
    /\ Len(items) = 4
    /\ [k \in 1..4 |-> items[k].locationId] = <<1, 2, 1, 1>>
    /\ run.countTotal = 4

(***************************************************************************)
(* Claims about the backoff of requestWithRetry                            *)
(***************************************************************************)
\* The delays between the attempts of a call with the default base.
DefaultDelays == <<800, 1600, 3200>>

\* C22: the call sleeps once after every attempt that ended in a network
\* failure or in a retryable status, and at no other time: not before the
\* first attempt and not before it returns a response.  The k-th sleep,
\* the one between attempts k and k+1, lasts base * 2^(k-1), whichever of
\* the two the attempt ended in: 800, 1600 and 3200 ms with base 800.
C22_ExponentialBackoff ==
    LET n == Len(rq.log) IN
    /\ Len(rq.slept) = Cardinality({k \in 1..n : Transient(rq.log[k])})
    /\ \A k \in 1..Len(rq.slept) :
          /\ Transient(rq.log[k])
          /\ rq.slept[k] = rq.base * Pow2(k - 1)
    /\ n = 0 => rq.slept = <<>>
    /\ rq.pc = "returned" => Len(rq.slept) = n - 1
    /\ rq.base = 800 =>
          \A k \in 1..MinOf(3, Len(rq.slept)) : rq.slept[k] = DefaultDelays[k]

C22_Witness ==
    /\ rq.pc = "returned"
    /\ rq.retries = DefaultRetries
    /\ rq.base = BaseBackoffMs
    /\ Len(rq.log) = 4
    /\ rq.log[1].net
    /\ ~rq.log[2].net /\ rq.log[2].status = 503
    /\ rq.log[3].net
    /\ rq.res = 200
    /\ rq.slept = DefaultDelays

(***************************************************************************)
(* Claims about the reply-link calls                                       *)
(***************************************************************************)
\* The workers with a createPrefillRid call made and not yet followed by
\* the next one or by the worker's return (the call pending, or settled
\* and the worker in the sleep(60) after it).
LinkInFlight == {i \in DOMAIN lw : wpc[i] = "running" /\ lw[i].phase = "link"}

\* The number of createPrefillRid calls the worker of item i has made.
LinkCallsMade(i) == IF lw[i].phase = "link" THEN lw[i].k ELSE Len(lw[i].linked)

\* C23: the link calls of one location are made one after the other: at
\* most one of them is unsettled at any time, the call for review k+1 is
\* made only when the calls for reviews 1..k have settled and their
\* records are in the list, in that order; and over all locations at most
\* `limit` link calls are unsettled at any time.
C23_SequentialLinking ==
    /\ \A i \in DOMAIN lw :
          LET recs == RecordsOfLoc(items, locations[i].id) IN
          /\ Len(recs) = Len(lw[i].linked)
          /\ LinkCallsMade(i) - Len(lw[i].linked) \in {0, 1}
          /\ LinkCallsMade(i) <= Len(lw[i].h.out)
          /\ ReviewIds(recs) = IdsOf(SubSeq(lw[i].h.out, 1, Len(recs)))
          /\ i \in LinkInFlight =>
                /\ LinkCallsMade(i) = Len(recs) + 1
                /\ lw[i].h.pc = "returned"
          /\ (lw[i].phase = "done" /\ lw[i].h.pc = "returned") =>
                Len(recs) = Len(lw[i].h.out)
    /\ Cardinality(LinkInFlight) <= limit

C23_Witness ==
    /\ limit = 2
    /\ LinkInFlight = {1, 2}
    /\ lw[1].k = 2
    /\ lw[2].k = 1
    /\ ReviewIds(items) = <<1>>
    /\ Len(lw[1].h.out) = 3

(***************************************************************************)
(* Claims about the delivery guarantee                                     *)
(***************************************************************************)
\* The places <<batch, position>> of the accepted batches that hold rec.
PlacesOf(rec) ==
    {bp \in (1..Len(sink)) \X (1..MaxSent + MaxBatch) :
        bp[2] <= Len(sink[bp[1]].data) /\ sink[bp[1]].data[bp[2]] = rec}

\* C24: when main has returned (exit code 0), every batch 1..batch_total
\* was POSTed and got a 2xx response, every collected record is in the
\* data of exactly one of them, and the batches together are the
\* collected list.  A batch is sent once per fetch of its requestWithRetry
\* call: at least once and at most N = 4 times, the fetches before the
\* last one having ended in a network failure or a retryable status, so
\* the webhook may get the same batch several times.
C24_AtLeastOnce ==
    /\ Len(rq.log) <= DefaultRetries
    /\ \A k \in 1..(Len(rq.log) - 1) : Transient(rq.log[k])
    /\ \A k \in 1..Len(posts) : Settled(posts[k]) => (k < Len(posts) \/ Len(rq.log) >= 1)
    /\ run.pc = "done" =>
          /\ Len(posts) = Len(run.chunks)
          /\ \A k \in 1..Len(posts) : Accepted(posts[k].res)
          /\ \A k \in 1..Len(sink) : sink[k].batch_index = k
          /\ Delivered = items
          /\ \A k \in 1..Len(items) : Cardinality(PlacesOf(items[k])) = 1
          /\ rq.pc = "returned" /\ Accepted(rq.res)
          /\ Len(rq.log) \in 1..DefaultRetries

C24_Witness ==
    /\ run.pc = "done"
    /\ Len(items) = 3
    /\ Len(sink) = 2
    /\ Len(rq.log) = DefaultRetries
    /\ ~rq.log[1].net /\ rq.log[1].status = 503
    /\ rq.log[2].net
    /\ rq.res = 200

(***************************************************************************)
(* Claims about the record                                                 *)
(***************************************************************************)
\* The field holds a value: it is neither null nor the empty string.
HasValue(x) == x # Null /\ x # ""

\* Either the record has a reply id and a reply URL and no error text, or
\* it has an error text and neither a reply id nor a reply URL.
RecordLinked(rec) ==
    \/ /\ HasValue(rec.prefill_rid)
       /\ HasValue(rec.smart_reply_url)
       /\ rec.prefill_error = Null
    \/ /\ rec.prefill_rid = Null
       /\ rec.smart_reply_url = Null
       /\ HasValue(rec.prefill_error)

\* C25: in every record of the collected list and of the delivered
\* batches exactly one of prefill_rid and prefill_error is non-null, and
\* smart_reply_url is non-null if and only if prefill_rid is.
C25_RecordInvariant ==
    /\ \A k \in 1..Len(items) : RecordLinked(items[k])
    /\ \A k \in 1..Len(Delivered) : RecordLinked(Delivered[k])

C25_Witness ==
    /\ run.pc = "done"
    /\ Len(Delivered) = 3
    /\ Delivered[1].prefill_rid = "rid1"
    /\ Delivered[1].smart_reply_url = "/?rid=rid1"
    /\ Delivered[2].prefill_error = "HTTP error status"
    /\ Delivered[3].prefill_error = "Prefill error"
    /\ Delivered[3].smart_reply_url = Null

====
